---- MODULE Spec2Model ----
(***************************************************************************)
(* Project Dashboard (src/app.py): a session-gated Flask application that   *)
(* lists known project directories, browses the tree under PROJECT_ROOT    *)
(* and previews small text files.  The model is a state machine over the   *)
(* session cookie, the filesystem the handlers read, and the position of   *)
(* the request in flight inside its handler.                               *)
(*                                                                         *)
(* Python strings are sequences of one-character strings, so that the      *)
(* substring test, the prefix test, the sort and os.path's string          *)
(* functions are computed as the code computes them.                       *)
(***************************************************************************)
EXTENDS Integers, Sequences, FiniteSets, TLC

\* ------------------------------------------------------------------------
\* Bounds of the model
\* ------------------------------------------------------------------------
\* how many times another actor changes the filesystem in one behaviour
MaxFsChanges == 1
\* how many symbolic links one path resolution follows before giving up
MaxLinkDepth == 3

\* ------------------------------------------------------------------------
\* Strings
\* ------------------------------------------------------------------------
\* the printable ASCII characters in code point order, from 32 (space); the
\* quote, the backslash and the backtick, which no path of the model holds, are
\* spelled out
Printable ==
  << " ", "!", "<quote>", "#", "$", "%", "&", "'", "(", ")", "*", "+", ",", "-", ".", "/",
     "0", "1", "2", "3", "4", "5", "6", "7", "8", "9", ":", ";", "<", "=", ">", "?",
     "@", "A", "B", "C", "D", "E", "F", "G", "H", "I", "J", "K", "L", "M", "N", "O",
     "P", "Q", "R", "S", "T", "U", "V", "W", "X", "Y", "Z", "[", "<backslash>", "]", "^", "_",
     "<backtick>", "a", "b", "c", "d", "e", "f", "g", "h", "i", "j", "k", "l", "m", "n", "o",
     "p", "q", "r", "s", "t", "u", "v", "w", "x", "y", "z", "{", "|", "}", "~" >>

\* ord(c): the code point of a character
Ord(c) == 31 + (CHOOSE i \in 1..Len(Printable) : Printable[i] = c)

\* Python's None, a value no string equals
None == << "<None>" >>

\* s.startswith(p)
StartsWith(s, p) == Len(p) <= Len(s) /\ SubSeq(s, 1, Len(p)) = p

\* sub in s
Contains(s, sub) ==
  \E i \in 1..(Len(s) - Len(sub) + 1) : SubSeq(s, i, i + Len(sub) - 1) = sub

\* a < b on str: the first differing code point decides, a proper prefix is smaller
RECURSIVE StrLess(_, _)
StrLess(a, b) ==
  IF b = << >> THEN FALSE
  ELSE IF a = << >> THEN TRUE
  ELSE IF Head(a) = Head(b) THEN StrLess(Tail(a), Tail(b))
  ELSE Ord(Head(a)) < Ord(Head(b))

\* a variant of sorted that leaves the names in the opposite order, to try the
\* ordering law against
RECURSIVE sorted_Reversed(_)
sorted_Reversed(names) ==
  IF names = {} THEN << >>
  ELSE LET last == CHOOSE n \in names : \A m \in names \ {n} : StrLess(m, n)
       IN  << last >> \o sorted_Reversed(names \ {last})

\* sorted(names): the names of a set in increasing order
RECURSIVE sorted(_)
sorted(names) ==
  IF names = {} THEN << >>
  ELSE LET least == CHOOSE n \in names : \A m \in names \ {n} : StrLess(n, m)
       IN  << least >> \o sorted(names \ {least})

\* s.split("/")
RECURSIVE Split(_)
Split(s) ==
  IF \A i \in 1..Len(s) : s[i] # "/" THEN << s >>
  ELSE LET k == CHOOSE i \in 1..Len(s) :
                  s[i] = "/" /\ \A j \in 1..(i - 1) : s[j] # "/"
       IN  << SubSeq(s, 1, k - 1) >> \o Split(SubSeq(s, k + 1, Len(s)))

\* s.rstrip("/")
RECURSIVE RStripSep(_)
RStripSep(s) ==
  IF s # << >> /\ s[Len(s)] = "/" THEN RStripSep(SubSeq(s, 1, Len(s) - 1)) ELSE s

\* s.rfind("/") + 1
RFindSep(s) ==
  IF \A i \in 1..Len(s) : s[i] # "/" THEN 0
  ELSE CHOOSE i \in 1..Len(s) : s[i] = "/" /\ \A j \in (i + 1)..Len(s) : s[j] # "/"

\* os.path.join(a, b)
path_join(a, b) ==
  IF StartsWith(b, << "/" >>) THEN b
  ELSE IF a = << >> \/ a[Len(a)] = "/" THEN a \o b
  ELSE a \o << "/" >> \o b

\* os.path.dirname(p)
dirname(p) ==
  LET head == SubSeq(p, 1, RFindSep(p))
  IN  IF head # << >> /\ \E i \in 1..Len(head) : head[i] # "/"
      THEN RStripSep(head) ELSE head

\* os.path.basename(p)
basename(p) == SubSeq(p, RFindSep(p) + 1, Len(p))

\* ------------------------------------------------------------------------
\* Names and configuration
\* ------------------------------------------------------------------------
Sep == << "/" >>
Dot == << "." >>
DotDot == << ".", "." >>

\* PROJECT_ROOT = '/home/dragon'
PROJECT_ROOT == << "/", "h", "o", "m", "e", "/", "d", "r", "a", "g", "o", "n" >>

\* DASHBOARD_USER and DASHBOARD_PASS, at their defaults
DASHBOARD_USER == "dragon"
DASHBOARD_PASS == "dragon123"

\* the keys of main_projects, in order
main_projects ==
  << << "t", "h", "r", "e", "a", "t", "-", "i", "n", "t", "e", "l", "-",
        "a", "g", "g", "r", "e", "g", "a", "t", "o", "r" >>,
     << "t", "r", "a", "d", "i", "n", "g" >>,
     << "f", "i", "s", "h", "t", "r", "a", "c", "k", "e", "r" >>,
     << "s", "e", "c", "t", "o", "p" >> >>

\* the keys of tooling_areas, in order
tooling_areas ==
  << << "c", "l", "a", "u", "d", "e", "-", "g", "i", "t", "-",
        "c", "o", "n", "t", "r", "o", "l" >>,
     << "c", "l", "a", "u", "d", "e", "-", "b", "a", "c", "k", "u", "p", "s" >>,
     << "p", "r", "o", "j", "e", "c", "t", "-", "d", "a", "s", "h", "b", "o", "a", "r", "d" >> >>

n_node_modules == << "n", "o", "d", "e", "_", "m", "o", "d", "u", "l", "e", "s" >>
n_pycache == << "_", "_", "p", "y", "c", "a", "c", "h", "e", "_", "_" >>
n_venv == << "v", "e", "n", "v" >>
n_git == << ".", "g", "i", "t" >>

\* a variant of WalkPruned that knows hidden directories only
WalkPruned_HiddenOnly(d) == StartsWith(d, Dot)

\* the directories os.walk is told not to descend into (count_files, get_last_modified)
WalkPruned(d) ==
  StartsWith(d, Dot) \/ d \in {n_node_modules, n_pycache, n_venv, n_git}

\* the entries api_browse leaves out of a listing
BrowseHidden(entry) ==
  StartsWith(entry, Dot) \/ entry \in {n_node_modules, n_pycache, n_venv}

\* the size above which api_read_file refuses a file: 1024 * 1024
MaxFileSize == 1024 * 1024

\* ------------------------------------------------------------------------
\* The filesystem the handlers read: a node for every physical path (a
\* sequence of names below "/"); a symbolic link holds its target string.
\* perm = FALSE is a node nobody may read or search (mode 000).
\* ------------------------------------------------------------------------
n_etc == << "e", "t", "c" >>
n_passwd == << "p", "a", "s", "s", "w", "d" >>
n_home == << "h", "o", "m", "e" >>
n_dragon == << "d", "r", "a", "g", "o", "n" >>
n_dragonX == << "d", "r", "a", "g", "o", "n", "X" >>
n_key == << "k", "e", "y" >>
n_sib == << "s", "i", "b" >>
n_trading == << "t", "r", "a", "d", "i", "n", "g" >>
n_backups == << "c", "l", "a", "u", "d", "e", "-", "b", "a", "c", "k", "u", "p", "s" >>
n_Alpha == << "A", "l", "p", "h", "a" >>
n_beta == << "b", "e", "t", "a", ".", "t", "x", "t" >>
n_zeta == << "z", "e", "t", "a", ".", "t", "x", "t" >>
n_bbin == << "b", ".", "b", "i", "n" >>
n_HEAD == << "H", "E", "A", "D" >>
n_pip == << "p", "i", "p" >>
n_new == << "n", ".", "t", "x", "t" >>
n_idx == << "i", "d", "x" >>
n_v1v2 == << "v", "1", ".", ".", "2" >>

RootDir == << n_home, n_dragon >>
TradingDir == RootDir \o << n_trading >>

Absent == [kind |-> "none", perm |-> TRUE, size |-> 0, utf8 |-> TRUE, mtime |-> 0,
           data |-> "", target |-> << >>]
DirNode == [Absent EXCEPT !.kind = "dir"]
FileNode(size, utf8, mtime, data) ==
  [Absent EXCEPT !.kind = "file", !.size = size, !.utf8 = utf8, !.mtime = mtime,
                 !.data = data]
LinkNode(target) == [Absent EXCEPT !.kind = "link", !.target = target]

\* targets outside PROJECT_ROOT
t_etc == << "/", "e", "t", "c" >>
t_passwd == << "/", "e", "t", "c", "/", "p", "a", "s", "s", "w", "d" >>
t_dragonX == << "/", "h", "o", "m", "e", "/", "d", "r", "a", "g", "o", "n", "X" >>

\* the filesystem at start
InitialFs ==
  ( << >> :> DirNode ) @@
  ( << n_etc >> :> DirNode ) @@
  ( << n_etc, n_passwd >> :> FileNode(7, TRUE, 11, "passwd") ) @@
  ( << n_home >> :> DirNode ) @@
  ( << n_home, n_dragonX >> :> DirNode ) @@
  ( << n_home, n_dragonX, n_key >> :> FileNode(9, TRUE, 12, "key") ) @@
  ( RootDir :> DirNode ) @@
  ( RootDir \o << n_sib >> :> LinkNode(t_dragonX) ) @@
  ( RootDir \o << n_backups >> :> DirNode ) @@
  ( RootDir \o << n_v1v2 >> :> DirNode ) @@
  ( TradingDir :> DirNode ) @@
  ( TradingDir \o << n_Alpha >> :> DirNode ) @@
  ( TradingDir \o << n_Alpha, n_bbin >> :> FileNode(3, FALSE, 13, "bbin") ) @@
  ( TradingDir \o << n_Alpha, n_new >> :> Absent ) @@
  ( TradingDir \o << n_beta >> :> FileNode(MaxFileSize, TRUE, 14, "beta") ) @@
  ( TradingDir \o << n_zeta >> :> FileNode(MaxFileSize + 1, TRUE, 15, "zeta") ) @@
  ( TradingDir \o << n_git >> :> DirNode ) @@
  ( TradingDir \o << n_git, n_HEAD >> :> FileNode(2, TRUE, 16, "head") ) @@
  ( TradingDir \o << n_git, n_idx >> :> Absent ) @@
  ( TradingDir \o << n_venv >> :> DirNode ) @@
  ( TradingDir \o << n_venv, n_pip >> :> FileNode(4, FALSE, 17, "pip") )

NodeAt(f, p) == IF p \in DOMAIN f THEN f[p] ELSE Absent
Present(f, p) == NodeAt(f, p).kind # "none"
Parent(p) == IF p = << >> THEN p ELSE SubSeq(p, 1, Len(p) - 1)
Under(p, d) == Len(d) <= Len(p) /\ SubSeq(p, 1, Len(d)) = d
Children(f, d) == { p \in DOMAIN f : Len(p) = Len(d) + 1 /\ Under(p, d) /\ Present(f, p) }

\* the kernel's path walk, following every symbolic link: the physical path of
\* the object a path string names, or the errno of the failure
RECURSIVE Walk(_, _, _, _)
Walk(f, cur, toks, fuel) ==
  IF toks = << >> THEN [err |-> "", at |-> cur]
  ELSE LET t == Head(toks)
           rest == Tail(toks)
           nxt == Append(cur, t)
       IN  IF NodeAt(f, cur).kind # "dir" THEN [err |-> "ENOTDIR", at |-> cur]
           ELSE IF t = << >> \/ t = Dot THEN Walk(f, cur, rest, fuel)
           ELSE IF ~NodeAt(f, cur).perm THEN [err |-> "EACCES", at |-> cur]
           ELSE IF t = DotDot THEN Walk(f, Parent(cur), rest, fuel)
           ELSE IF ~Present(f, nxt) THEN [err |-> "ENOENT", at |-> nxt]
           ELSE IF NodeAt(f, nxt).kind = "link"
                THEN IF fuel = 0 THEN [err |-> "ELOOP", at |-> nxt]
                     ELSE Walk(f,
                               IF StartsWith(NodeAt(f, nxt).target, Sep) THEN << >> ELSE cur,
                               Split(NodeAt(f, nxt).target) \o rest, fuel - 1)
           ELSE Walk(f, nxt, rest, fuel)

\* os.stat(path): the path strings of this program are absolute
os_stat(f, path) == Walk(f, << >>, Split(path), MaxLinkDepth)

\* os.lstat(p).is_link for a physical path whose ancestors are resolved already
IsLink(f, p) ==
  /\ NodeAt(f, p).kind = "link"
  /\ \A k \in 0..(Len(p) - 1) :
        NodeAt(f, SubSeq(p, 1, k)).kind = "dir" /\ NodeAt(f, SubSeq(p, 1, k)).perm

\* posixpath._joinrealpath: a missing or unreadable component is kept as it is
RECURSIVE joinrealpath(_, _, _, _)
joinrealpath(f, path, toks, fuel) ==
  IF toks = << >> THEN path
  ELSE LET name == Head(toks)
           rest == Tail(toks)
           newpath == Append(path, name)
       IN  IF name = << >> \/ name = Dot THEN joinrealpath(f, path, rest, fuel)
           ELSE IF name = DotDot THEN joinrealpath(f, Parent(path), rest, fuel)
           ELSE IF IsLink(f, newpath) /\ fuel > 0
                THEN joinrealpath(f,
                        IF StartsWith(NodeAt(f, newpath).target, Sep) THEN << >> ELSE path,
                        Split(NodeAt(f, newpath).target) \o rest, fuel - 1)
           ELSE joinrealpath(f, newpath, rest, fuel)

\* the physical path os.path.realpath(path) names
RealSegs(f, path) == joinrealpath(f, << >>, Split(path), MaxLinkDepth)

\* "/" + "/".join(segs)
RECURSIVE JoinSegs(_)
JoinSegs(segs) ==
  IF segs = << >> THEN << >> ELSE Sep \o Head(segs) \o JoinSegs(Tail(segs))

\* os.path.realpath(path), as a string
realpath(f, path) == IF RealSegs(f, path) = << >> THEN Sep ELSE JoinSegs(RealSegs(f, path))

\* os.path.exists, os.path.isdir, os.path.isfile: False on any OSError
exists(f, path) == os_stat(f, path).err = ""
isdir(f, path) == exists(f, path) /\ NodeAt(f, os_stat(f, path).at).kind = "dir"
isfile(f, path) == exists(f, path) /\ NodeAt(f, os_stat(f, path).at).kind = "file"

\* the Python exception an errno is raised as
Raised(err) ==
  CASE err = "ENOENT" -> "FileNotFoundError"
    [] err = "EACCES" -> "PermissionError"
    [] err = "ENOTDIR" -> "NotADirectoryError"
    [] OTHER -> "OSError"

\* os.listdir(path): the names in a directory, or the exception raised
listdir(f, path) ==
  LET w == os_stat(f, path)
  IN  IF w.err # "" THEN [exc |-> Raised(w.err), names |-> {}]
      ELSE IF NodeAt(f, w.at).kind # "dir" THEN [exc |-> "NotADirectoryError", names |-> {}]
      ELSE IF ~NodeAt(f, w.at).perm THEN [exc |-> "PermissionError", names |-> {}]
      ELSE [exc |-> "", names |-> { p[Len(p)] : p \in Children(f, w.at) }]

\* open(path, 'r', encoding='utf-8') and f.read(): the whole content of the
\* file the path names, or the exception raised
read_text(f, path) ==
  LET w == os_stat(f, path)
      n == NodeAt(f, w.at)
  IN  IF w.err # "" THEN [exc |-> Raised(w.err), data |-> "", at |-> w.at]
      ELSE IF n.kind = "dir" THEN [exc |-> "IsADirectoryError", data |-> "", at |-> w.at]
      ELSE IF ~n.perm THEN [exc |-> "PermissionError", data |-> "", at |-> w.at]
      ELSE IF ~n.utf8 THEN [exc |-> "UnicodeDecodeError", data |-> "", at |-> w.at]
      ELSE [exc |-> "", data |-> n.data, at |-> w.at]

\* ------------------------------------------------------------------------
\* DirectoryScanner: os.walk with pruning
\* ------------------------------------------------------------------------
\* DirEntry.is_dir(): a directory, or a symbolic link to one
IsDirEntry(f, p) ==
  \/ NodeAt(f, p).kind = "dir"
  \/ NodeAt(f, p).kind = "link" /\ isdir(f, JoinSegs(p))

\* the entries os.walk reports as files of directory d
WalkFiles(f, d) == { c \in Children(f, d) : ~IsDirEntry(f, c) }

\* the subdirectories os.walk descends into after the handler's pruning of
\* dirs: a symbolic link is listed but not followed
WalkDescend(f, d) ==
  { c \in Children(f, d) :
      IsDirEntry(f, c) /\ ~WalkPruned(c[Len(c)]) /\ NodeAt(f, c).kind # "link" }

\* whether os.scandir(d) succeeds; os.walk passes a failure over in silence
Scannable(f, d) == NodeAt(f, d).kind = "dir" /\ NodeAt(f, d).perm

\* count += len(files), over the walk below the physical directory d
RECURSIVE walk_count(_, _), walk_count_all(_, _)
walk_count(f, d) ==
  IF ~Scannable(f, d) THEN 0
  ELSE Cardinality(WalkFiles(f, d)) + walk_count_all(f, WalkDescend(f, d))
walk_count_all(f, ds) ==
  IF ds = {} THEN 0
  ELSE LET d == CHOOSE c \in ds : TRUE
       IN  walk_count(f, d) + walk_count_all(f, ds \ {d})

\* count_files(directory)
count_files(f, directory) ==
  LET w == os_stat(f, directory)
  IN  IF w.err # "" THEN 0 ELSE walk_count(f, w.at)

\* the files the walk below d reports
RECURSIVE walk_files(_, _)
walk_files(f, d) ==
  IF ~Scannable(f, d) THEN {}
  ELSE WalkFiles(f, d) \cup UNION { walk_files(f, c) : c \in WalkDescend(f, d) }

Max(S) == CHOOSE m \in S : \A n \in S : n <= m

\* get_last_modified(directory): the latest os.path.getmtime over the walk's
\* files, a file whose stat fails being passed over; the string returned is
\* 'Unknown' or the rendering of this time to the minute
get_last_modified(f, directory) ==
  LET w == os_stat(f, directory)
      files == IF w.err # "" THEN {} ELSE walk_files(f, w.at)
      mtimes == { NodeAt(f, os_stat(f, JoinSegs(p)).at).mtime :
                    p \in { q \in files : os_stat(f, JoinSegs(q)).err = "" } }
      latest == Max(mtimes \cup {0})
  IN  [known |-> latest > 0, minute_of |-> latest]

\* get_project_status(directory): both branches return 'active'
get_project_status(f, directory) == "active"

ProjectEntry(f, dname, category) ==
  LET dir_path == path_join(PROJECT_ROOT, dname)
  IN  [name |-> dname, type |-> category, path |-> dname,
       files_count |-> count_files(f, dir_path),
       last_modified |-> get_last_modified(f, dir_path),
       status |-> IF category = "project" THEN get_project_status(f, dir_path) ELSE "active"]

\* get_projects(): an entry for every configured directory that exists
get_projects(f) ==
  LET there(n) == exists(f, path_join(PROJECT_ROOT, n))
      mains == SelectSeq(main_projects, there)
      tools == SelectSeq(tooling_areas, there)
  IN  [i \in 1..Len(mains) |-> ProjectEntry(f, mains[i], "project")] \o
      [i \in 1..Len(tools) |-> ProjectEntry(f, tools[i], "tooling")]

\* ------------------------------------------------------------------------
\* State
\* ------------------------------------------------------------------------
VARIABLES
  session,    \* the Flask session of the client: a dict
  auth,       \* history: the last event that changed the session
  fs,         \* the filesystem
  fsChanges,  \* how many times another actor has changed the filesystem
  pc,         \* where the request in flight stands in its handler; "idle": none
  req,        \* the request in flight, or the last one
  loc,        \* the handler's local variables
  resp,       \* the response to req; kind "none" while the handler runs
  hist        \* history of the request: the filesystem calls made (ops), the
              \* objects whose content or metadata went into the response
              \* (shown), the entries whose os.stat succeeded (statOk), whether
              \* the target was inside PROJECT_ROOT when realpath looked
              \* (inside), whether the filesystem changed since the request
              \* arrived (dirty), and the listing the client came from (nav)

vars == << session, auth, fs, fsChanges, pc, req, loc, resp, hist >>

EmptySession == [k \in {} |-> TRUE]

NoResp == [kind |-> "none"]
Redirect(to) == [kind |-> "redirect", to |-> to]
Page(template, error) == [kind |-> "page", template |-> template, error |-> error]
JsonError(code, error) == [kind |-> "error", code |-> code, error |-> error]

\* seen: the objects os.stat and os.path.isdir looked at for the items and the
\* size kept so far
NoLocals == [entries |-> << >>, listed |-> FALSE, i |-> 1, items |-> << >>,
             st |-> Absent, file_size |-> 0, seen |-> {}]

NoNav == [valid |-> FALSE, c |-> << >>, dirs |-> {}]

\* the paths of the directory items of a listing
DirPaths(r) ==
  IF r.kind # "listing" THEN {}
  ELSE { r.items[k].path : k \in { j \in 1..Len(r.items) : r.items[j].type = "directory" } }

\* the relative paths a client asks for
SubPaths ==
  { << >>,
    n_trading,
    n_trading \o Sep,
    n_trading \o Sep \o n_Alpha,
    n_trading \o Sep \o n_beta,
    n_trading \o Sep \o n_zeta,
    n_trading \o Sep \o n_Alpha \o Sep \o n_bbin,
    n_trading \o Sep \o n_key,
    n_sib,
    n_sib \o Sep \o n_key,
    n_v1v2,
    DotDot \o Sep \o n_etc,
    n_trading \o Sep \o DotDot,
    t_passwd }

\* the form fields of a login POST; "<None>" is a field left out
Usernames == { DASHBOARD_USER, "<None>" }
Passwords == { DASHBOARD_PASS, "wrong" }

Init ==
  /\ session = EmptySession
  /\ auth = "none"
  /\ fs = InitialFs
  /\ fsChanges = 0
  /\ pc = "idle"
  /\ req = [route |-> "none", method |-> "GET", path |-> << >>, form |-> << >>]
  /\ loc = NoLocals
  /\ resp = NoResp
  /\ hist = [ops |-> {}, shown |-> {}, statOk |-> {}, inside |-> FALSE,
             nav |-> NoNav, dirty |-> FALSE]

\* ------------------------------------------------------------------------
\* SessionGate
\* ------------------------------------------------------------------------
\* a variant of login_required that lets every request through
login_required_Open == TRUE

\* login_required: whether the decorated handler is called
login_required == "logged_in" \in DOMAIN session

\* a request arrives: the history of the previous one is closed
Arrive(route, method, path, form) ==
  /\ pc = "idle"
  /\ req' = [route |-> route, method |-> method, path |-> path, form |-> form]
  /\ loc' = NoLocals
  /\ hist' = [ops |-> {}, shown |-> {}, statOk |-> {}, inside |-> FALSE, dirty |-> FALSE,
              nav |-> IF resp.kind = "listing" /\ ~hist.dirty
                      THEN [valid |-> TRUE, c |-> resp.current_path, dirs |-> DirPaths(resp)]
                      ELSE NoNav]

\* the handler returns
Return(r) == resp' = r /\ pc' = "idle"

\* the handler makes a filesystem call and goes on
Called(op) == hist' = [hist EXCEPT !.ops = @ \cup {op}]

\* GET /
index ==
  /\ Arrive("index", "GET", << >>, << >>)
  /\ IF ~login_required THEN Return(Redirect("login"))
     ELSE Return(Page("dashboard.html", ""))
  /\ UNCHANGED << session, auth, fs, fsChanges >>

\* GET /api/projects
api_projects ==
  /\ Arrive("api_projects", "GET", << >>, << >>)
  /\ IF ~login_required THEN Return(Redirect("login"))
     ELSE Return([kind |-> "projects", code |-> 200, projects |-> get_projects(fs)])
  /\ UNCHANGED << session, auth, fs, fsChanges >>

\* GET or POST /login
login(method, username, password) ==
  /\ Arrive("login", method, << >>, IF method = "POST" THEN << username, password >> ELSE << >>)
  /\ IF method = "POST"
     THEN IF username = DASHBOARD_USER /\ password = DASHBOARD_PASS
          THEN /\ session' = [logged_in |-> TRUE, username |-> username]
               /\ auth' = "login"
               /\ Return(Redirect("index"))
          ELSE /\ Return(Page("login.html", "Invalid credentials"))
               /\ UNCHANGED << session, auth >>
     ELSE /\ Return(Page("login.html", ""))
          /\ UNCHANGED << session, auth >>
  /\ UNCHANGED << fs, fsChanges >>

\* GET /logout
logout ==
  /\ Arrive("logout", "GET", << >>, << >>)
  /\ session' = EmptySession
  /\ auth' = "logout"
  /\ Return(Redirect("login"))
  /\ UNCHANGED << fs, fsChanges >>

\* GET /browse and /browse/<path:subpath>
browse(subpath) ==
  /\ Arrive("browse", "GET", subpath, << >>)
  /\ IF ~login_required THEN Return(Redirect("login"))
     ELSE Return([kind |-> "page", template |-> "browse.html", error |-> "",
                  initial_path |-> subpath])
  /\ UNCHANGED << session, auth, fs, fsChanges >>

\* ------------------------------------------------------------------------
\* PathSandbox, as both handlers write it out
\* ------------------------------------------------------------------------
\* a variant of InvalidPath that looks at the start of the path only
InvalidPath_AtStart(subpath) == StartsWith(subpath, DotDot) \/ StartsWith(subpath, Sep)

\* '..' in subpath or subpath.startswith('/')
InvalidPath(subpath) == Contains(subpath, DotDot) \/ StartsWith(subpath, Sep)

\* target_path of the request in flight
target_path ==
  IF req.route = "api_browse"
  THEN IF req.path # << >> THEN path_join(PROJECT_ROOT, req.path) ELSE PROJECT_ROOT
  ELSE path_join(PROJECT_ROOT, req.path)

\* not real_target.startswith(real_root)
AccessDenied(f, target) == ~StartsWith(realpath(f, target), realpath(f, PROJECT_ROOT))

\* whether the object a path names lies outside PROJECT_ROOT: its canonical
\* location is neither the root nor below it
Escapes(f, target) == ~Under(RealSegs(f, target), RealSegs(f, PROJECT_ROOT))

\* os.path.realpath is called on the target and on the root
Resolved ==
  hist' = [hist EXCEPT !.ops = @ \cup {"realpath"}, !.inside = ~Escapes(fs, target_path)]

\* ------------------------------------------------------------------------
\* BrowseService: GET /api/browse and /api/browse/<path:subpath>
\* ------------------------------------------------------------------------
api_browse(subpath) ==
  /\ Arrive("api_browse", "GET", subpath, << >>)
  /\ IF ~login_required THEN Return(Redirect("login"))
     ELSE IF InvalidPath(subpath) THEN Return(JsonError(400, "Invalid path"))
     ELSE resp' = NoResp /\ pc' = "b_realpath"
  /\ UNCHANGED << session, auth, fs, fsChanges >>

browse_realpath ==
  /\ pc = "b_realpath"
  /\ Resolved
  /\ IF AccessDenied(fs, target_path) THEN Return(JsonError(403, "Access denied"))
     ELSE pc' = "b_exists" /\ UNCHANGED resp
  /\ UNCHANGED << session, auth, fs, fsChanges, req, loc >>

browse_exists ==
  /\ pc = "b_exists"
  /\ Called("exists")
  /\ IF ~exists(fs, target_path) THEN Return(JsonError(404, "Path not found"))
     ELSE pc' = "b_isdir" /\ UNCHANGED resp
  /\ UNCHANGED << session, auth, fs, fsChanges, req, loc >>

browse_isdir ==
  /\ pc = "b_isdir"
  /\ Called("isdir")
  /\ IF ~isdir(fs, target_path) THEN Return(JsonError(400, "Not a directory"))
     ELSE pc' = "b_listdir" /\ UNCHANGED resp
  /\ UNCHANGED << session, auth, fs, fsChanges, req, loc >>

\* entries = sorted(os.listdir(target_path)), inside the handler's try
browse_listdir ==
  /\ pc = "b_listdir"
  /\ Called("listdir")
  /\ LET l == listdir(fs, target_path)
     IN  IF l.exc = "PermissionError"
         THEN Return(JsonError(403, "Permission denied")) /\ UNCHANGED loc
         ELSE IF l.exc # ""
         THEN Return(JsonError(500, l.exc)) /\ UNCHANGED loc
         ELSE /\ loc' = [loc EXCEPT !.entries = sorted(l.names), !.listed = TRUE]
              /\ pc' = "b_loop"
              /\ UNCHANGED resp
  /\ UNCHANGED << session, auth, fs, fsChanges, req >>

\* os.path.join(target_path, entry)
full_path(entry) == path_join(target_path, entry)

\* a variant of rel_path that forgets the directory browsed
rel_path_NameOnly(subpath, entry) == entry

\* os.path.join(subpath, entry) if subpath else entry
rel_path(subpath, entry) == IF subpath # << >> THEN path_join(subpath, entry) ELSE entry

\* os.path.dirname(subpath) if subpath else None
parent_path(subpath) == IF subpath # << >> THEN dirname(subpath) ELSE None

\* a variant of EntrySkipped that passes over permission failures only
EntrySkipped_PermissionOnly(exc) == exc = "PermissionError"

\* except (PermissionError, FileNotFoundError): continue
EntrySkipped(exc) == exc \in {"PermissionError", "FileNotFoundError"}

\* directories + files
Partition(items) ==
  SelectSeq(items, LAMBDA item : item.type = "directory") \o
  SelectSeq(items, LAMBDA item : item.type = "file")

\* one turn of "for entry in entries" up to the entry's os.stat, or the
\* return after the loop
browse_loop ==
  /\ pc = "b_loop"
  /\ IF loc.i > Len(loc.entries)
     THEN /\ Return([kind |-> "listing", code |-> 200, current_path |-> req.path,
                     items |-> Partition(loc.items),
                     parent_path |-> parent_path(req.path)])
          /\ hist' = [hist EXCEPT !.shown = loc.seen]
          /\ UNCHANGED loc
     ELSE LET entry == loc.entries[loc.i]
              w == os_stat(fs, full_path(entry))
          IN  IF BrowseHidden(entry)
              THEN /\ loc' = [loc EXCEPT !.i = @ + 1]
                   /\ UNCHANGED << pc, resp, hist >>
              ELSE IF w.err = ""
              THEN /\ loc' = [loc EXCEPT !.st = NodeAt(fs, w.at), !.seen = @ \cup {w.at}]
                   /\ hist' = [hist EXCEPT !.ops = @ \cup {"stat"},
                                           !.statOk = @ \cup {entry}]
                   /\ pc' = "b_entry"
                   /\ UNCHANGED resp
              ELSE IF EntrySkipped(Raised(w.err))
              THEN /\ loc' = [loc EXCEPT !.i = @ + 1]
                   /\ Called("stat")
                   /\ UNCHANGED << pc, resp >>
              ELSE /\ Return(JsonError(500, Raised(w.err)))
                   /\ Called("stat")
                   /\ UNCHANGED loc
  /\ UNCHANGED << session, auth, fs, fsChanges, req >>

\* is_dir = os.path.isdir(full_path) and items.append(...); the time shown is
\* the rendering of st_mtime to the second
browse_entry ==
  /\ pc = "b_entry"
  /\ LET entry == loc.entries[loc.i]
         w == os_stat(fs, full_path(entry))
         is_dir == isdir(fs, full_path(entry))
     IN  /\ loc' = [loc EXCEPT
                      !.items = Append(@, [name |-> entry,
                                           path |-> rel_path(req.path, entry),
                                           type |-> IF is_dir THEN "directory" ELSE "file",
                                           size |-> IF is_dir THEN None ELSE loc.st.size,
                                           modified |-> loc.st.mtime]),
                      !.i = @ + 1,
                      !.seen = @ \cup (IF w.err = "" THEN {w.at} ELSE {})]
         /\ Called("isdir")
  /\ pc' = "b_loop"
  /\ UNCHANGED << session, auth, fs, fsChanges, req, resp >>

\* ------------------------------------------------------------------------
\* FileReader: GET /api/file/<path:filepath>
\* ------------------------------------------------------------------------
\* a variant of TooLarge that refuses a file of exactly the ceiling
TooLarge_AtCeiling(file_size) == file_size >= MaxFileSize

\* file_size > 1024 * 1024
TooLarge(file_size) == file_size > MaxFileSize

\* f'{file_size / 1024 / 1024:.2f}': the size in hundredths of a mebibyte
SizeInMB(file_size) == (file_size * 100 + MaxFileSize \div 2) \div MaxFileSize

api_read_file(filepath) ==
  /\ Arrive("api_file", "GET", filepath, << >>)
  /\ IF ~login_required THEN Return(Redirect("login"))
     ELSE IF InvalidPath(filepath) THEN Return(JsonError(400, "Invalid path"))
     ELSE resp' = NoResp /\ pc' = "f_realpath"
  /\ UNCHANGED << session, auth, fs, fsChanges >>

file_realpath ==
  /\ pc = "f_realpath"
  /\ Resolved
  /\ IF AccessDenied(fs, target_path) THEN Return(JsonError(403, "Access denied"))
     ELSE pc' = "f_exists" /\ UNCHANGED resp
  /\ UNCHANGED << session, auth, fs, fsChanges, req, loc >>

file_exists ==
  /\ pc = "f_exists"
  /\ Called("exists")
  /\ IF ~exists(fs, target_path) THEN Return(JsonError(404, "File not found"))
     ELSE pc' = "f_isfile" /\ UNCHANGED resp
  /\ UNCHANGED << session, auth, fs, fsChanges, req, loc >>

file_isfile ==
  /\ pc = "f_isfile"
  /\ Called("isfile")
  /\ IF ~isfile(fs, target_path) THEN Return(JsonError(400, "Not a file"))
     ELSE pc' = "f_getsize" /\ UNCHANGED resp
  /\ UNCHANGED << session, auth, fs, fsChanges, req, loc >>

\* file_size = os.path.getsize(target_path) and the size ceiling
file_getsize ==
  /\ pc = "f_getsize"
  /\ LET w == os_stat(fs, target_path)
         file_size == NodeAt(fs, w.at).size
     IN  IF w.err # ""
         THEN /\ Return(IF Raised(w.err) = "PermissionError"
                        THEN JsonError(403, "Permission denied")
                        ELSE JsonError(500, Raised(w.err)))
              /\ Called("getsize")
              /\ UNCHANGED loc
         ELSE /\ hist' = [hist EXCEPT !.ops = @ \cup {"getsize"},
                                      !.shown = IF TooLarge(file_size) THEN {w.at} ELSE {}]
              /\ loc' = [loc EXCEPT !.file_size = file_size, !.seen = {w.at}]
              /\ IF TooLarge(file_size)
                 THEN Return([kind |-> "error", code |-> 413, error |-> "File too large",
                              message |-> SizeInMB(file_size)])
                 ELSE pc' = "f_open" /\ UNCHANGED resp
  /\ UNCHANGED << session, auth, fs, fsChanges, req >>

\* open(target_path, 'r', encoding='utf-8') and f.read()
file_open ==
  /\ pc = "f_open"
  /\ LET r == read_text(fs, target_path)
     IN  /\ hist' = [hist EXCEPT !.ops = @ \cup {"open"},
                                 !.shown = IF r.exc = "" THEN loc.seen \cup {r.at}
                                           ELSE IF r.exc = "UnicodeDecodeError" THEN loc.seen
                                           ELSE {}]
         /\ IF r.exc = ""
            THEN Return([kind |-> "file", code |-> 200, name |-> basename(req.path),
                         path |-> req.path, content |-> r.data,
                         size |-> loc.file_size, type |-> "text"])
            ELSE IF r.exc = "UnicodeDecodeError"
            THEN Return([kind |-> "error", code |-> 415, error |-> "Binary file",
                         message |-> "Cannot display binary files",
                         name |-> basename(req.path), path |-> req.path,
                         size |-> loc.file_size, type |-> "binary"])
            ELSE IF r.exc = "PermissionError"
            THEN Return(JsonError(403, "Permission denied"))
            ELSE Return(JsonError(500, r.exc))
  /\ UNCHANGED << session, auth, fs, fsChanges, req, loc >>

\* ------------------------------------------------------------------------
\* Another actor on the host changes the filesystem
\* ------------------------------------------------------------------------
Changed(f) ==
  /\ fsChanges < MaxFsChanges
  /\ fsChanges' = fsChanges + 1
  /\ fs' = f
  /\ hist' = [hist EXCEPT !.dirty = TRUE]
  /\ UNCHANGED << session, auth, pc, req, loc, resp >>

\* what is below p goes with p
Without(f, p) == [q \in DOMAIN f |-> IF Under(q, p) THEN Absent ELSE f[q]]

\* a directory or a file is replaced by a symbolic link that leaves PROJECT_ROOT
LinkSwaps ==
  { << TradingDir \o << n_Alpha >>, t_etc >>,
    << TradingDir \o << n_beta >>, t_passwd >> }

EnvSymlink(p, target) ==
  /\ NodeAt(fs, p).kind \in {"dir", "file"}
  /\ Changed([Without(fs, p) EXCEPT ![p] = LinkNode(target)])

\* an entry is deleted
Removable ==
  { TradingDir \o << n_beta >>, TradingDir \o << n_zeta >>,
    TradingDir \o << n_Alpha, n_bbin >> }

EnvRemove(p) ==
  /\ Present(fs, p)
  /\ Changed(Without(fs, p))

\* all permissions on a directory or a file are taken away
Revocable == { TradingDir, TradingDir \o << n_beta >> }

EnvChmod(p) ==
  /\ NodeAt(fs, p).kind \in {"dir", "file"}
  /\ NodeAt(fs, p).perm
  /\ Changed([fs EXCEPT ![p].perm = FALSE])

\* a file is created
Creatable == { TradingDir \o << n_Alpha, n_new >>, TradingDir \o << n_git, n_idx >> }

EnvAddFile(p) ==
  /\ ~Present(fs, p)
  /\ NodeAt(fs, Parent(p)).kind = "dir"
  /\ Changed([fs EXCEPT ![p] = FileNode(1, TRUE, 18, "new")])

EnvStep ==
  \/ \E sw \in LinkSwaps : EnvSymlink(sw[1], sw[2])
  \/ \E p \in Removable : EnvRemove(p)
  \/ \E p \in Revocable : EnvChmod(p)
  \/ \E p \in Creatable : EnvAddFile(p)

\* ------------------------------------------------------------------------
\* Specifications
\* ------------------------------------------------------------------------
Request ==
  \/ index
  \/ api_projects
  \/ login("GET", "<None>", "<None>")
  \/ \E u \in Usernames, p \in Passwords : login("POST", u, p)
  \/ logout
  \/ \E p \in {<< >>, n_trading} : browse(p)
  \/ \E p \in SubPaths \cup DirPaths(resp) : api_browse(p)
  \/ \E p \in (SubPaths \cup DirPaths(resp)) \ {<< >>} : api_read_file(p)

Step ==
  \/ browse_realpath
  \/ browse_exists
  \/ browse_isdir
  \/ browse_listdir
  \/ browse_loop
  \/ browse_entry
  \/ file_realpath
  \/ file_exists
  \/ file_isfile
  \/ file_getsize
  \/ file_open

\* the filesystem changes between requests only
Next == Request \/ Step \/ (pc = "idle" /\ EnvStep)

Spec == Init /\ [][Next]_vars

\* the filesystem changes at any point of a request
NextRace == Request \/ Step \/ EnvStep

SpecRace == Init /\ [][NextRace]_vars


\* ------------------------------------------------------------------------
\* Properties
\* ------------------------------------------------------------------------
\* the request is answered, by the handler and not by the login gate, and the
\* filesystem is as it was when the request arrived
Answered(routes) ==
  pc = "idle" /\ req.route \in routes /\ resp.kind \notin {"none", "redirect"}
Settled(routes) == Answered(routes) /\ ~hist.dirty

IsError(code, error) == resp.kind = "error" /\ resp.code = code /\ resp.error = error

\* C1: a path of /api/browse or /api/file that passes the syntax check and
\* whose target's canonical location is neither PROJECT_ROOT nor below it is
\* answered with Access denied (403), a symbolic link to the sibling
\* /home/dragonX included
C1_EscapeDenied ==
  ( /\ Settled({"api_browse", "api_file"})
    /\ ~InvalidPath(req.path)
    /\ Escapes(fs, target_path) )
  => IsError(403, "Access denied")

\* C2: whatever another actor does to the filesystem during a request whose
\* target was inside PROJECT_ROOT when the sandbox looked, every object whose
\* content or metadata the response holds lies in PROJECT_ROOT
C2_ShownInsideRoot ==
  hist.inside => \A o \in hist.shown : Under(o, RealSegs(fs, PROJECT_ROOT))

\* a '..' segment of a relative path
HasParentSegment(p) == \E k \in 1..Len(Split(p)) : Split(p)[k] = DotDot

\* C3: an authenticated request to /api/browse or /api/file whose path has a
\* '..' segment or starts with the separator is answered with Invalid path
\* (400) at once, before any filesystem call
C3_BadSyntaxRejected ==
  ( /\ req.route \in {"api_browse", "api_file"}
    /\ resp.kind # "redirect"
    /\ (HasParentSegment(req.path) \/ StartsWith(req.path, Sep)) )
  => (pc = "idle" /\ IsError(400, "Invalid path") /\ hist.ops = {})

C3_Witness ==
  /\ Answered({"api_file"})
  /\ req.path = n_trading \o Sep \o DotDot
  /\ IsError(400, "Invalid path")

\* the routes behind login_required
Gated == {"index", "api_projects", "browse", "api_browse", "api_file"}

\* a step that takes a request of one of the routes
Takes(routes) == pc = "idle" /\ fsChanges' = fsChanges /\ req'.route \in routes

\* C4: a gated request runs its handler only if the last event that changed
\* the session was a login with the configured username and password, and is
\* redirected to login before any filesystem call otherwise; handler steps are
\* taken in such a session only; a failed login leaves the session as it was;
\* logout leaves it empty
C4_SessionGate ==
  [][ /\ Takes(Gated) =>
          IF auth = "login"
          THEN resp'.kind # "redirect"
          ELSE resp'.kind = "redirect" /\ resp'.to = "login" /\ pc' = "idle"
               /\ hist'.ops = {}
      /\ pc # "idle" => auth = "login"
      /\ ( Takes({"login"})
           /\ ~(req'.method = "POST" /\ req'.form = << "dragon", "dragon123" >>) )
         => session' = session /\ auth' = auth
      /\ ( Takes({"login"})
           /\ req'.method = "POST" /\ req'.form = << "dragon", "dragon123" >> )
         => auth' = "login"
      /\ Takes({"logout"}) => session' = EmptySession /\ auth' = "logout"
    ]_vars

C4_Witness ==
  /\ auth = "logout"
  /\ pc = "idle"
  /\ req.route = "api_browse"
  /\ resp.kind = "redirect"

Precedence(f, target, subpath, missing, wrongKind, rightKind) ==
  IF InvalidPath(subpath) THEN << 400, "Invalid path" >>
  ELSE IF Escapes(f, target) THEN << 403, "Access denied" >>
  ELSE IF ~exists(f, target) THEN << 404, missing >>
  ELSE IF ~rightKind THEN << 400, wrongKind >>
  ELSE << 200, "" >>

\* C6: the outcome of /api/browse and of /api/file follows the precedence
\* Invalid path, Access denied, not found, wrong kind, and only then the
\* listing or the file stage (which may still end in Permission denied, too
\* large or binary)
C6_Precedence ==
  LET want == IF req.route = "api_browse"
              THEN Precedence(fs, target_path, req.path, "Path not found",
                              "Not a directory", isdir(fs, target_path))
              ELSE Precedence(fs, target_path, req.path, "File not found",
                              "Not a file", isfile(fs, target_path))
  IN  Settled({"api_browse", "api_file"}) =>
        IF want[1] = 200
        THEN \/ resp.kind \in {"listing", "file"}
             \/ resp.kind = "error" /\ resp.error \in {"Permission denied", "File too large",
                                                       "Binary file"}
        ELSE IsError(want[1], want[2])

\* the file a settled /api/file request names, when the sandbox checks passed
\* and it is a regular file in PROJECT_ROOT
FileAsked == NodeAt(fs, os_stat(fs, target_path).at)
FilePassed ==
  /\ Settled({"api_file"})
  /\ ~InvalidPath(req.path)
  /\ ~AccessDenied(fs, target_path)
  /\ isfile(fs, target_path)
  /\ ~Escapes(fs, target_path)

FileReturned ==
  /\ resp.kind = "file"
  /\ resp.content = FileAsked.data
  /\ resp.size = FileAsked.size
  /\ resp.type = "text"

SizeRule ==
  /\ IsError(413, "File too large") <=> FileAsked.size > 1048576
  /\ IsError(413, "File too large") => "open" \notin hist.ops

\* C7 as written: the file is refused as too large, unread, exactly when it
\* has more than 1,048,576 bytes, and every text file of at most that size is
\* returned with its content, its size and kind text
C7_Original ==
  FilePassed => /\ SizeRule
                /\ (FileAsked.size <= 1048576 /\ FileAsked.utf8) => FileReturned

\* C7, amended: as written, for the text files the server may read
C7_SizeCeiling ==
  FilePassed => /\ SizeRule
                /\ (FileAsked.size <= 1048576 /\ FileAsked.utf8 /\ FileAsked.perm)
                     => FileReturned

C7_Witness ==
  /\ FilePassed
  /\ FileAsked.size = 1048576
  /\ FileReturned

\* the names count_files is said to keep out of
ExcludedName(n) ==
  \/ n[1] = "."
  \/ n \in { n_node_modules, n_pycache, n_venv, n_git }

\* the files in directory top or below it with no excluded subdirectory on the
\* way from top
FilesBelow(f, top) ==
  { p \in DOMAIN f :
      /\ Present(f, p)
      /\ Len(p) > Len(top)
      /\ Under(p, top)
      /\ ~IsDirEntry(f, p)
      /\ \A k \in (Len(top) + 1)..(Len(p) - 1) : ~ExcludedName(p[k]) }

\* those of them with no directory that cannot be read on the way, top included
FilesReached(f, top) ==
  { p \in FilesBelow(f, top) :
      \A k \in Len(top)..(Len(p) - 1) : NodeAt(f, SubSeq(p, 1, k)).perm }

\* the directories a scan can be started in
Directories(f) ==
  { d \in DOMAIN f : NodeAt(f, d).kind = "dir" /\ os_stat(f, JoinSegs(d)).err = "" }

\* a step of another actor that adds a file and changes nothing else
FileAdded ==
  /\ fsChanges' # fsChanges
  /\ \E p \in DOMAIN fs :
        /\ ~Present(fs, p)
        /\ fs'[p].kind = "file"
        /\ \A q \in DOMAIN fs \ {p} : fs'[q] = fs[q]

\* adding a file never lowers the count of any directory
CountGrows ==
  [][ FileAdded =>
        \A d \in Directories(fs) :
           count_files(fs', JoinSegs(d)) >= count_files(fs, JoinSegs(d)) ]_vars

\* C8 as written: count_files counts exactly the files with no excluded
\* subdirectory on the way; /api/projects reports that number for every
\* project, and on the filesystem it saw count_files gives that number for
\* every directory; adding a file never lowers a count
C8_Original ==
  /\ [] ( Settled({"api_projects"}) =>
            /\ \A k \in 1..Len(resp.projects) :
                  resp.projects[k].files_count =
                    Cardinality(FilesBelow(fs, RealSegs(fs, PROJECT_ROOT)
                                                 \o << resp.projects[k].name >>))
            /\ \A d \in Directories(fs) :
                  count_files(fs, JoinSegs(d)) = Cardinality(FilesBelow(fs, d)) )
  /\ CountGrows

\* C8, amended: as written, less the files in or below a directory that cannot
\* be read
C8_CountFiles ==
  /\ [] ( Settled({"api_projects"}) =>
            /\ \A k \in 1..Len(resp.projects) :
                  resp.projects[k].files_count =
                    Cardinality(FilesReached(fs, RealSegs(fs, PROJECT_ROOT)
                                                   \o << resp.projects[k].name >>))
            /\ \A d \in Directories(fs) :
                  count_files(fs, JoinSegs(d)) = Cardinality(FilesReached(fs, d)) )
  /\ CountGrows

C8_Witness ==
  /\ Settled({"api_projects"})
  /\ Present(fs, TradingDir \o << n_git, n_idx >>)
  /\ resp.projects[1].name = n_trading
  /\ resp.projects[1].files_count = 3

\* the entries api_browse is said to leave out
HiddenName(n) ==
  \/ n[1] = "."
  \/ n \in { n_node_modules, n_pycache, n_venv }

ItemNames == { resp.items[k].name : k \in 1..Len(resp.items) }

\* C9: once os.listdir has succeeded, /api/browse answers with a listing of
\* exactly the shown entries whose os.stat succeeded, whichever entries vanish
\* or become unreadable before their turn
C9_EntryFailOpen ==
  ( pc = "idle" /\ req.route = "api_browse" /\ loc.listed )
  => /\ resp.kind = "listing"
     /\ ItemNames = hist.statOk
     /\ Len(resp.items) = Cardinality(hist.statOk)
     /\ \A k \in 1..Len(loc.entries) :
           loc.entries[k] \in hist.statOk => ~HiddenName(loc.entries[k])

C9_Witness ==
  /\ pc = "idle" /\ req.route = "api_browse" /\ loc.listed
  /\ resp.kind = "listing"
  /\ \E k \in 1..Len(loc.entries) :
        ~HiddenName(loc.entries[k]) /\ loc.entries[k] \notin hist.statOk
  /\ hist.statOk # {}

\* the client has followed a directory item of the listing it had, on an
\* unchanged filesystem
Followed ==
  /\ Settled({"api_browse"})
  /\ hist.nav.valid
  /\ req.path \in hist.nav.dirs

RootRule ==
  (resp.kind = "listing" /\ resp.current_path = << >>) => resp.parent_path = None

====
